---- MODULE Spec2Model ----
(***************************************************************************)
(* Timelock encryption (tlock) over BLS12-381: the IBE primitive           *)
(* (tlock/src/ibe.rs), the raw U||V||W framing (tlock/src/lib.rs) and the  *)
(* age stanza binding (tlock_age/src/tle_age.rs, tlock_age/src/lib.rs).    *)
(*                                                                         *)
(* Bytes are integers 0..255 and byte strings are sequences of them.       *)
(* The pairing groups are modelled by the discrete logarithms of their     *)
(* elements: a point of G1 or G2 is k*G for k in 0..FieldOrder-1, and the  *)
(* pairing of a*G1 and b*G2 is the element a*b of Gt, which is bilinear.   *)
(* SHA-256 is a deterministic 32-byte digest of its input.                 *)
(***************************************************************************)
EXTENDS Integers, Sequences, FiniteSets, TLC

\* ------------------------------------------------------------------ bounds
\* order of the scalar field of the model groups
FieldOrder == 7
\* rounds 1..MaxRound are the rounds a beacon signs
MaxRound == 2
\* secret keys 2..MaxSecret+1 of the beacon
MaxSecret == 1
\* number of G1_SIZE-byte limbs in a serialized Gt element
GtLimbs == 2
\* the random generator yields the sigmas of seeds 0..MaxSigmaSeed
MaxSigmaSeed == 1

\* --------------------------------------------------------- program constants
G1_SIZE == 48
G2_SIZE == 96
BLOCK_SIZE == 32
\* length of the message buffer of encrypt and of V and W on the wire
MSG_SIZE == 16
\* length of a SHA-256 digest
DIGEST_SIZE == 32
\* exclusive upper end of the range a byte of sigma is drawn from
SIGMA_RANGE == 8

\* ------------------------------------------------------------ byte strings
Zeros(n) == [i \in 1..n |-> 0]

Fill(b, n) == [i \in 1..n |-> b]

Min(a, b) == IF a < b THEN a ELSE b

Take(s, n) == SubSeq(s, 1, Min(n, Len(s)))

Drop(s, n) == SubSeq(s, Min(n, Len(s)) + 1, Len(s))

Reverse(s) == LET n == Len(s) IN [i \in 1..n |-> s[n + 1 - i]]

\* bit k of the exclusive or of two bytes
XorBit(a, b, k) == (((a \div (2 ^ k)) + (b \div (2 ^ k))) % 2) * (2 ^ k)

XorByte(a, b) ==
    XorBit(a, b, 0) + XorBit(a, b, 1) + XorBit(a, b, 2) + XorBit(a, b, 3)
      + XorBit(a, b, 4) + XorBit(a, b, 5) + XorBit(a, b, 6) + XorBit(a, b, 7)

\* xor panics when the lengths differ
xorPanics(a, b) == Len(a) # Len(b)

xor(a, b) == [i \in 1..Min(Len(a), Len(b)) |-> XorByte(a[i], b[i])]

\* ------------------------------------------------------------------ SHA-256
\* the compression of bytes lo..hi of data, as a tree of two-to-one steps
RECURSIVE Absorb(_, _, _)
Absorb(data, lo, hi) ==
    IF lo > hi THEN 7
    ELSE IF lo = hi THEN data[lo] + 1
    ELSE (Absorb(data, lo, (lo + hi) \div 2) * 31
            + Absorb(data, ((lo + hi) \div 2) + 1, hi) * 17 + hi - lo) % 32749

\* the 32 bytes of the digest, from the compressed state h
Finalize(h) ==
    [j \in 1..DIGEST_SIZE |-> ((h + j) * (2 * j + 1) + (h \div 256)) % 256]

Sha256(data) == Finalize(Absorb(data, 1, Len(data)))

LabelH2 == <<73, 66, 69, 45, 72, 50>>
LabelH3 == <<73, 66, 69, 45, 72, 51>>
LabelH4 == <<73, 66, 69, 45, 72, 52>>

\* --------------------------------------------------------------- the groups
Scalars == 0..(FieldOrder - 1)

Size(grp) == IF grp = "G1" THEN G1_SIZE ELSE G2_SIZE

Opposite(grp) == IF grp = "G1" THEN "G2" ELSE "G1"

Point(grp, k) == [grp |-> grp, k |-> k]

\* ScalarField::from_le_bytes_mod_order: the little-endian integer, reduced
\* base ^ e modulo FieldOrder
RECURSIVE PowMod(_, _)
PowMod(base, e) ==
    IF e = 0 THEN 1 % FieldOrder
    ELSE IF e % 2 = 1 THEN (base * PowMod(base, e - 1)) % FieldOrder
    ELSE PowMod((base * base) % FieldOrder, e \div 2)

\* the little-endian integer of bytes lo..hi of buf, modulo FieldOrder
RECURSIVE LeMod(_, _, _)
LeMod(buf, lo, hi) ==
    IF lo > hi THEN 0
    ELSE IF lo = hi THEN buf[lo] % FieldOrder
    ELSE (LeMod(buf, lo, (lo + hi) \div 2)
            + PowMod(256 % FieldOrder, ((lo + hi) \div 2) + 1 - lo)
                * LeMod(buf, ((lo + hi) \div 2) + 1, hi)) % FieldOrder

from_le_bytes_mod_order(buf) == LeMod(buf, 1, Len(buf))

generator(p) == Point(p.grp, 1 % FieldOrder)

mul(p, s) == Point(p.grp, (p.k * s) % FieldOrder)

\* compressed serialization: the flag bit and the coordinate, then padding
to_compressed(p) == <<128 + p.k>> \o Zeros(Size(p.grp) - 1)

ValidCompressed(bytes) ==
    /\ bytes[1] >= 128
    /\ bytes[1] - 128 < FieldOrder
    /\ \A i \in 2..Len(bytes) : bytes[i] = 0

\* impl TryFrom<&[u8]> for GAffine
try_from(bytes) ==
    IF Len(bytes) = G1_SIZE \/ Len(bytes) = G2_SIZE
    THEN IF ValidCompressed(bytes)
         THEN [ok |-> TRUE,
               point |-> Point(IF Len(bytes) = G1_SIZE THEN "G1" ELSE "G2",
                               bytes[1] - 128)]
         ELSE [ok |-> FALSE, point |-> Point("G1", 0)]
    ELSE [ok |-> FALSE, point |-> Point("G1", 0)]

\* hash-to-curve into group grp: a point other than the identity
HashToCurve(grp, id) ==
    Point(grp, 1 + (from_le_bytes_mod_order(Sha256(<<66, 76, 83>> \o id))
                      % (FieldOrder - 1)))

\* an element of Gt is x*gt; its serialization has GtLimbs limbs
GtSerialize(x) ==
    [i \in 1..(GtLimbs * G1_SIZE) |-> (x * (i + 3) + i) % 256]

\* GAffine::projective_pairing: e(master, H(id))
projective_pairing(master, id) ==
    (master.k * HashToCurve(Opposite(master.grp), id).k) % FieldOrder

\* GAffine::pairing: an error when both points are in the same group
pairing(a, b) ==
    IF a.grp # b.grp
    THEN [ok |-> TRUE, gt |-> (a.k * b.k) % FieldOrder]
    ELSE [ok |-> FALSE, gt |-> 0]

\* ------------------------------------------------------ the IBE primitive
Ciphertext(u, v, w) == [u |-> u, v |-> v, w |-> w]

\* i.to_le_bytes() of a u16
U16Le(i) == <<i % 256, i \div 256>>

\* Fr::serialized_size(Compress::Yes)
serialized_size(s) == DIGEST_SIZE

\* the first byte of h shifted right by BITS_TO_MASK_FOR_BLS12381
MaskFirst(h) == [h EXCEPT ![1] = @ \div 2]

\* the bytes rev of counter i: the masked hash of i and msg, reversed
Candidate(msg, i) == Reverse(MaskFirst(Sha256(U16Le(i) \o msg)))

\* ExpandMsgDrand::expand_message, from counter i on: the 32 bytes left in buf
RECURSIVE ExpandFrom(_, _)
\* the test made on rev, the candidate of counter i
TestCandidate(rev, msg, i) ==
    IF serialized_size(from_le_bytes_mod_order(rev)) > 0
    THEN rev
    ELSE ExpandFrom(msg, i + 1)

ExpandFrom(msg, i) ==
    IF i >= 65535 THEN Zeros(BLOCK_SIZE)
    ELSE TestCandidate(Candidate(msg, i), msg, i)

expand_message(msg) == ExpandFrom(msg, 1)

\* step 3 of encrypt and of decrypt: r from sigma and msg
DeriveR(sigma, msg) ==
    from_le_bytes_mod_order(expand_message(Sha256(LabelH3 \o sigma \o msg)))

\* a variant of MaskH2 that reverses the order of the 48-byte limbs only
MaskH2_chunks(gt) ==
    Take(Sha256(LabelH2
                  \o [i \in 1..(GtLimbs * G1_SIZE) |->
                        GtSerialize(gt)[(GtLimbs - 1 - ((i - 1) \div G1_SIZE)) * G1_SIZE
                                          + ((i - 1) % G1_SIZE) + 1]]),
         MSG_SIZE)

\* the mask H2 of a Gt element: every byte of the serialization reversed
MaskH2(gt) == Take(Sha256(LabelH2 \o Reverse(GtSerialize(gt))), MSG_SIZE)

MaskH4(sigma) == Take(Sha256(LabelH4 \o sigma), MSG_SIZE)

\* a variant of LastBlock that takes the leading 16 bytes of the padded block
LastBlock_leading(s) == SubSeq(s, 1, MSG_SIZE)

LastBlock(s) == SubSeq(s, Len(s) - MSG_SIZE + 1, Len(s))

\* steps 4 to 6 of ibe::encrypt: U = G^r, V = sigma xor H2(r Gid),
\* W = msg xor H4(sigma)
EncryptSteps(master, gid, r, msg, sigma) ==
    IF xorPanics(msg, MaskH4(sigma))
    THEN [outcome |-> "panic", c |-> Ciphertext(master, <<>>, <<>>)]
    ELSE [outcome |-> "ok",
          c |-> Ciphertext(mul(generator(master), r),
                           xor(sigma, MaskH2((gid * r) % FieldOrder)),
                           xor(msg, MaskH4(sigma)))]

\* ibe::encrypt with the sigma drawn from the random generator
ibe_encrypt(master, id, msg, sigma) ==
    IF Len(msg) > BLOCK_SIZE
    THEN [outcome |-> "panic", c |-> Ciphertext(master, <<>>, <<>>)]
    ELSE EncryptSteps(master, projective_pairing(master, id),
                      DeriveR(sigma, msg), msg, sigma)

\* the consistency check U = G^r of ibe::decrypt
CheckU(c, sigma, msg) == c.u = mul(generator(c.u), DeriveR(sigma, msg))

\* step 3 of ibe::decrypt: the assertion on U, then Ok(msg)
DecryptCheck(c, sigma, msg) ==
    IF ~CheckU(c, sigma, msg)
    THEN [outcome |-> "panic", msg |-> msg, check |-> "fail"]
    ELSE [outcome |-> "ok", msg |-> msg, check |-> "pass"]

\* step 2 of ibe::decrypt: msg = W xor H4(sigma)
DecryptMsg(c, sigma) ==
    DecryptCheck(c, sigma, xor(MaskH4(sigma), LastBlock(c.w)))

\* step 1 of ibe::decrypt: sigma = V xor H2(e(U, private)), p the pairing
DecryptSigma(c, p) ==
    IF ~p.ok
    THEN [outcome |-> "err", msg |-> <<>>, check |-> "none"]
    ELSE DecryptMsg(c, xor(MaskH2(p.gt), LastBlock(c.v)))

\* ibe::decrypt
ibe_decrypt(private, c) ==
    IF Len(c.w) > BLOCK_SIZE \/ Len(c.v) < MSG_SIZE \/ Len(c.w) < MSG_SIZE
    THEN [outcome |-> "panic", msg |-> <<>>, check |-> "none"]
    ELSE DecryptSigma(c, pairing(private, c.u))

\* ------------------------------------------------------- the tlock framing
\* round_number.to_be_bytes() of a u64
U64Be(n) ==
    <<0, 0, 0, 0, (n \div 16777216) % 256, (n \div 65536) % 256,
      (n \div 256) % 256, n % 256>>

RoundId(round) == Take(Sha256(U64Be(round)), DIGEST_SIZE)

\* a variant of ReadMessage that reads one byte less
ReadMessage_short(src) ==
    LET n == Min(Len(src), MSG_SIZE - 1)
    IN  Take(src, n) \o Zeros(MSG_SIZE - n)

\* src.read(&mut message) on a byte slice, into the zeroed 16-byte buffer
ReadMessage(src) ==
    LET n == Min(Len(src), MSG_SIZE)
    IN  Take(src, n) \o Zeros(MSG_SIZE - n)

\* time_lock: unwraps the public key, then ibe::encrypt
time_lock(public_key_bytes, round, message, sigma) ==
    LET pk == try_from(public_key_bytes)
    IN  IF ~pk.ok
        THEN [outcome |-> "panic", c |-> Ciphertext(pk.point, <<>>, <<>>)]
        ELSE ibe_encrypt(pk.point, RoundId(round), message, sigma)

\* the write_all calls of a function, in order, on a writer whose wfail-th
\* write fails (0: none fails): the bytes written and whether one failed
Concat(parts, n) ==
    LET cat[i \in 0..n] == IF i = 0 THEN <<>> ELSE cat[i - 1] \o parts[i]
    IN  cat[n]

\* a variant of WriteAll that makes the writes in the opposite order
WriteAll_reversed(parts, wfail) ==
    LET n   == Len(parts)
        rev == [i \in 1..n |-> parts[n + 1 - i]]
    IN  IF wfail \in 1..n
        THEN [failed |-> TRUE, bytes |-> Concat(rev, wfail - 1)]
        ELSE [failed |-> FALSE, bytes |-> Concat(rev, n)]

WriteAll(parts, wfail) ==
    IF wfail \in 1..Len(parts)
    THEN [failed |-> TRUE, bytes |-> Concat(parts, wfail - 1)]
    ELSE [failed |-> FALSE, bytes |-> Concat(parts, Len(parts))]

\* the end of tlock::encrypt: the writes wr unwrapped, then Ok(())
EncryptWritten(wr) ==
    IF wr.failed THEN [outcome |-> "panic", dst |-> wr.bytes]
    ELSE [outcome |-> "ok", dst |-> wr.bytes]

\* the three write_all calls of tlock::encrypt on the ciphertext ct
EncryptWrite(ct, wfail) ==
    IF ct.outcome # "ok" THEN [outcome |-> "panic", dst |-> <<>>]
    ELSE EncryptWritten(WriteAll(<<to_compressed(ct.c.u), ct.c.v, ct.c.w>>,
                                 wfail))

\* tlock::encrypt
tlock_encrypt(src, public_key_bytes, round, sigma, wfail) ==
    EncryptWrite(time_lock(public_key_bytes, round, ReadMessage(src), sigma),
                 wfail)

\* a variant of ULen that reads a U of the length of the signature
ULen_same(signature) ==
    IF Len(signature) = G1_SIZE THEN G1_SIZE ELSE G2_SIZE

\* the length of U read by decrypt, from the length of the signature
ULen(signature) == IF Len(signature) = G1_SIZE THEN G2_SIZE ELSE G1_SIZE

\* the truncation of the plaintext at its last non-zero byte
TruncateZeros(pt) ==
    LET nz == {i \in 1..Len(pt) : pt[i] # 0}
    IN  IF nz # {}
        THEN SubSeq(pt, 1, CHOOSE i \in nz : \A j \in nz : j <= i)
        ELSE pt

\* time_unlock: unwraps the signature, then ibe::decrypt
time_unlock(signature, c) ==
    LET private == try_from(signature)
    IN  IF ~private.ok
        THEN [outcome |-> "panic", msg |-> <<>>, check |-> "none"]
        ELSE ibe_decrypt(private.point, c)

\* a variant of NoPlain whose writer has received a byte
NoPlain_written(outcome) ==
    [outcome |-> outcome, dst |-> <<0>>, pt |-> <<>>, check |-> "none"]

\* decrypt returns before time_unlock: nothing decrypted, nothing written
NoPlain(outcome) ==
    [outcome |-> outcome, dst |-> <<>>, pt |-> <<>>, check |-> "none"]

\* the end of tlock::decrypt: the result of dst.write_all(&pt)
DecryptWritten(un, wr) ==
    [outcome |-> IF wr.failed THEN "err" ELSE "ok", dst |-> wr.bytes,
     pt |-> un.msg, check |-> un.check]

\* tlock::decrypt after time_unlock returned un: truncation and write
DecryptWrite(un, wfail) ==
    IF un.outcome # "ok"
    THEN [outcome |-> un.outcome, dst |-> <<>>, pt |-> un.msg,
          check |-> un.check]
    ELSE DecryptWritten(un, WriteAll(<<TruncateZeros(un.msg)>>, wfail))

\* tlock::decrypt
tlock_decrypt(src, signature, wfail) ==
    LET k  == ULen(signature)
        u  == SubSeq(src, 1, k)
        v  == Zeros(MSG_SIZE) \o SubSeq(src, k + 1, k + MSG_SIZE)
        w  == Zeros(MSG_SIZE) \o SubSeq(src, k + MSG_SIZE + 1, k + 2 * MSG_SIZE)
        up == try_from(u)
    IN  IF Len(src) < k + 2 * MSG_SIZE THEN NoPlain("err")
        ELSE IF ~up.ok THEN NoPlain("err")
        ELSE DecryptWrite(time_unlock(signature, Ciphertext(up.point, v, w)),
                          wfail)

\* --------------------------------------------------- text conversions
\* a string is the sequence of its characters
DigitChars == <<"0", "1", "2", "3", "4", "5", "6", "7", "8", "9">>

LowerHexChars == DigitChars \o <<"a", "b", "c", "d", "e", "f">>

UpperHexChars == DigitChars \o <<"A", "B", "C", "D", "E", "F">>

IsDigit(c) == \E d \in 1..10 : DigitChars[d] = c

DigitValue(c) == (CHOOSE d \in 1..10 : DigitChars[d] = c) - 1

\* u64::to_string: decimal, no sign, no leading zero
RECURSIVE DecimalString(_)
DecimalString(n) ==
    IF n < 10 THEN <<DigitChars[n + 1]>>
    ELSE DecimalString(n \div 10) \o <<DigitChars[(n % 10) + 1]>>

RECURSIVE DecimalValue(_, _)
DecimalValue(str, n) ==
    IF n = 0 THEN 0
    ELSE 10 * DecimalValue(str, n - 1) + DigitValue(str[n])

\* str::parse::<u64>: an optional '+', then one or more digits
ParseU64(str) ==
    LET digits == IF str # <<>> /\ str[1] = "+" THEN Tail(str) ELSE str
    IN  IF digits = <<>> \/ \E i \in 1..Len(digits) : ~IsDigit(digits[i])
        THEN [ok |-> FALSE, value |-> 0]
        ELSE [ok |-> TRUE, value |-> DecimalValue(digits, Len(digits))]

\* a variant of HexEncode that writes upper-case digits
HexEncode_upper(bytes) ==
    [i \in 1..(2 * Len(bytes)) |->
        IF i % 2 = 1 THEN UpperHexChars[(bytes[(i + 1) \div 2] \div 16) + 1]
        ELSE UpperHexChars[(bytes[i \div 2] % 16) + 1]]

\* hex::encode: two lowercase digits per byte, the high one first
HexEncode(bytes) ==
    [i \in 1..(2 * Len(bytes)) |->
        IF i % 2 = 1 THEN LowerHexChars[(bytes[(i + 1) \div 2] \div 16) + 1]
        ELSE LowerHexChars[(bytes[i \div 2] % 16) + 1]]

IsHexChar(c) ==
    \E d \in 1..16 : LowerHexChars[d] = c \/ UpperHexChars[d] = c

HexValue(c) ==
    (CHOOSE d \in 1..16 : LowerHexChars[d] = c \/ UpperHexChars[d] = c) - 1

\* hex::decode: an error on an odd length or on a character that is no digit
HexDecode(str) ==
    IF Len(str) % 2 = 1 \/ \E i \in 1..Len(str) : ~IsHexChar(str[i])
    THEN [ok |-> FALSE, bytes |-> <<>>]
    ELSE [ok |-> TRUE,
          bytes |-> [i \in 1..(Len(str) \div 2) |->
                       16 * HexValue(str[2 * i - 1]) + HexValue(str[2 * i])]]

\* ------------------------------------------------- the age stanza binding
STANZA_TAG == "tlock"

Stanza(tag, args, body) == [tag |-> tag, args |-> args, body |-> body]

Recipient(hash, public_key_bytes, round) ==
    [hash |-> hash, public_key_bytes |-> public_key_bytes, round |-> round]

Identity(hash, signature) == [hash |-> hash, signature |-> signature]

\* Recipient::wrap_file_key, with the sigma the random generator yields; the
\* in-memory writer never fails
WrapStanza(recipient, res) ==
    [outcome |-> IF res.outcome = "panic" THEN "panic" ELSE "ok",
     stanzas |-> <<Stanza(STANZA_TAG,
                          <<DecimalString(recipient.round),
                            HexEncode(recipient.hash)>>,
                          res.dst)>>]

wrap_file_key(recipient, file_key, sigma) ==
    WrapStanza(recipient,
               tlock_encrypt(file_key, recipient.public_key_bytes,
                             recipient.round, sigma, 0))

Unwrapped(kind, err, key) == [kind |-> kind, err |-> err, key |-> key]

\* a variant of Resize that leaves the bytes as they are
Resize_keep(bytes, n) == bytes

\* dst.resize(16, 0)
Resize(bytes, n) ==
    IF Len(bytes) >= n THEN SubSeq(bytes, 1, n)
    ELSE bytes \o Zeros(n - Len(bytes))

\* a variant of MatchDecryption that takes the bytes decrypt wrote as the key
MatchDecryption_raw(decryption) ==
    IF decryption.outcome = "ok" THEN Unwrapped("Ok", "", decryption.dst)
    ELSE IF decryption.outcome = "err"
    THEN Unwrapped("Err", "DecryptionFailed", <<>>)
    ELSE Unwrapped("panic", "", <<>>)

\* the match on the result of tlock::decrypt in Identity::unwrap_stanza
MatchDecryption(decryption) ==
    IF decryption.outcome = "ok"
    THEN Unwrapped("Ok", "", Resize(decryption.dst, MSG_SIZE))
    ELSE IF decryption.outcome = "err"
    THEN Unwrapped("Err", "DecryptionFailed", <<>>)
    ELSE Unwrapped("panic", "", <<>>)

\* a variant of unwrap_stanza_reached that counts the args before it looks at
\* the tag
unwrap_stanza_reached_args_first(identity, stanza) ==
    IF Len(stanza.args) # 2 THEN "args"
    ELSE IF stanza.tag # STANZA_TAG THEN "tag"
    ELSE IF ~ParseU64(stanza.args[1]).ok THEN "round"
    ELSE IF ~HexDecode(stanza.args[2]).ok THEN "hex"
    ELSE IF identity.hash # HexDecode(stanza.args[2]).bytes THEN "hash"
    ELSE "decrypt"

\* a variant of unwrap_stanza_reached that does not compare the chain hash
unwrap_stanza_reached_any_hash(identity, stanza) ==
    IF stanza.tag # STANZA_TAG THEN "tag"
    ELSE IF Len(stanza.args) # 2 THEN "args"
    ELSE IF ~ParseU64(stanza.args[1]).ok THEN "round"
    ELSE IF ~HexDecode(stanza.args[2]).ok THEN "hex"
    ELSE "decrypt"

\* a variant of unwrap_stanza_reached that refuses round 0, which no beacon
\* signs
unwrap_stanza_reached_round_checked(identity, stanza) ==
    IF stanza.tag # STANZA_TAG THEN "tag"
    ELSE IF Len(stanza.args) # 2 THEN "args"
    ELSE IF ~ParseU64(stanza.args[1]).ok THEN "round"
    ELSE IF ParseU64(stanza.args[1]).value = 0 THEN "round"
    ELSE IF ~HexDecode(stanza.args[2]).ok THEN "hex"
    ELSE IF identity.hash # HexDecode(stanza.args[2]).bytes THEN "hash"
    ELSE "decrypt"

\* how far Identity::unwrap_stanza gets: the check at which it returns
\* ("tag", "args", "round", "hash"), the unwrap of hex::decode that panics
\* ("hex"), or the call of tlock::decrypt ("decrypt")
unwrap_stanza_reached(identity, stanza) ==
    LET round == ParseU64(stanza.args[1])
        hash  == HexDecode(stanza.args[2])
    IN  IF stanza.tag # STANZA_TAG THEN "tag"
        ELSE IF Len(stanza.args) # 2 THEN "args"
        ELSE IF ~round.ok THEN "round"
        ELSE IF ~hash.ok THEN "hex"
        ELSE IF identity.hash # hash.bytes THEN "hash"
        ELSE "decrypt"

\* what Identity::unwrap_stanza returns at the point it reaches
UnwrapAt(reached, identity, stanza) ==
    IF reached = "tag" THEN Unwrapped("None", "", <<>>)
    ELSE IF reached = "hex" THEN Unwrapped("panic", "", <<>>)
    ELSE IF reached = "decrypt"
    THEN MatchDecryption(tlock_decrypt(stanza.body, identity.signature, 0))
    ELSE Unwrapped("Err", "InvalidHeader", <<>>)

unwrap_stanza(identity, stanza) ==
    UnwrapAt(unwrap_stanza_reached(identity, stanza), identity, stanza)

\* the cells of a HeaderIdentity: <<>> is None, <<x>> is Some(x)
NewHeaderIdentity == [hash |-> <<>>, round |-> <<>>]

\* a variant of header_unwrap_stanza that answers with a file key
header_unwrap_stanza_keyed(cells, stanza) ==
    [res |-> Unwrapped("Ok", "", Zeros(MSG_SIZE)), cells |-> cells]

\* a variant of header_unwrap_stanza that stores nothing
header_unwrap_stanza_forgetful(cells, stanza) ==
    [res |-> Unwrapped("None", "", <<>>), cells |-> cells]

\* a variant of header_unwrap_stanza that stores the round as soon as it is
\* parsed, before the chain hash is decoded
header_unwrap_stanza_round_first(cells, stanza) ==
    IF stanza.tag # STANZA_TAG
    THEN [res |-> Unwrapped("None", "", <<>>), cells |-> cells]
    ELSE IF Len(stanza.args) # 2
    THEN [res |-> Unwrapped("Err", "InvalidHeader", <<>>), cells |-> cells]
    ELSE IF ~ParseU64(stanza.args[1]).ok
    THEN [res |-> Unwrapped("Err", "InvalidHeader", <<>>), cells |-> cells]
    ELSE IF ~HexDecode(stanza.args[2]).ok
    THEN [res |-> Unwrapped("Err", "InvalidHeader", <<>>),
          cells |-> [cells EXCEPT !.round = <<ParseU64(stanza.args[1]).value>>]]
    ELSE [res |-> Unwrapped("None", "", <<>>),
          cells |-> [hash |-> <<HexDecode(stanza.args[2]).bytes>>,
                     round |-> <<ParseU64(stanza.args[1]).value>>]]

\* a variant of header_unwrap_stanza that empties the cells when it rejects a
\* tlock stanza
header_unwrap_stanza_clearing(cells, stanza) ==
    IF stanza.tag # STANZA_TAG
    THEN [res |-> Unwrapped("None", "", <<>>), cells |-> cells]
    ELSE IF Len(stanza.args) # 2
    THEN [res |-> Unwrapped("Err", "InvalidHeader", <<>>),
          cells |-> NewHeaderIdentity]
    ELSE IF ~ParseU64(stanza.args[1]).ok \/ ~HexDecode(stanza.args[2]).ok
    THEN [res |-> Unwrapped("Err", "InvalidHeader", <<>>),
          cells |-> NewHeaderIdentity]
    ELSE [res |-> Unwrapped("None", "", <<>>),
          cells |-> [hash |-> <<HexDecode(stanza.args[2]).bytes>>,
                     round |-> <<ParseU64(stanza.args[1]).value>>]]

\* HeaderIdentity::unwrap_stanza: the result and the cells after the call
header_unwrap_stanza(cells, stanza) ==
    LET round == ParseU64(stanza.args[1])
        hash  == HexDecode(stanza.args[2])
    IN  IF stanza.tag # STANZA_TAG
        THEN [res |-> Unwrapped("None", "", <<>>), cells |-> cells]
        ELSE IF Len(stanza.args) # 2
        THEN [res |-> Unwrapped("Err", "InvalidHeader", <<>>), cells |-> cells]
        ELSE IF ~round.ok
        THEN [res |-> Unwrapped("Err", "InvalidHeader", <<>>), cells |-> cells]
        ELSE IF ~hash.ok
        THEN [res |-> Unwrapped("Err", "InvalidHeader", <<>>), cells |-> cells]
        ELSE [res |-> Unwrapped("None", "", <<>>),
              cells |-> [hash |-> <<hash.bytes>>, round |-> <<round.value>>]]

\* ------------------------------------------------------ the age container
\* an age file: the stanzas of its header, the MAC of the header under the
\* file key, and the payload sealed under the file key
StanzaBodies(stanzas) ==
    Concat([i \in 1..Len(stanzas) |-> stanzas[i].body \o <<Len(stanzas[i].args)>>],
           Len(stanzas))

HeaderMac(file_key, stanzas) ==
    Take(Sha256(file_key \o StanzaBodies(stanzas)), MSG_SIZE)

KeyStream(file_key, n) == [i \in 1..n |-> Sha256(file_key \o <<i % 256>>)[1]]

Seal(file_key, m) ==
    [ct |-> xor(m, KeyStream(file_key, Len(m))),
     tag |-> Take(Sha256(file_key \o m), MSG_SIZE)]

OpenTag(file_key, payload, m) ==
    [ok |-> Take(Sha256(file_key \o m), MSG_SIZE) = payload.tag, m |-> m]

Open(file_key, payload) ==
    OpenTag(file_key, payload,
            xor(payload.ct, KeyStream(file_key, Len(payload.ct))))

AgeFile(stanzas, mac, payload) ==
    [stanzas |-> stanzas, mac |-> mac, payload |-> payload]

NoFile == AgeFile(<<>>, <<>>, [ct |-> <<>>, tag |-> <<>>])

\* the stanza age may add after those of the recipients
GreaseStanza == Stanza("x-grease", <<<<"j", "o", "i", "n", "t">>>>, <<1, 2, 3>>)

\* tlock_age::encrypt: the age Encryptor with one tlock Recipient, for the
\* file key, the sigma and the grease choice drawn by the random generator
\* the file the age writer produces: header, MAC and sealed payload
WrapOutput(stanzas, file_key, m) ==
    AgeFile(stanzas, HeaderMac(file_key, stanzas), Seal(file_key, m))

\* the age Encryptor once the recipient has wrapped the file key
Encryptor(wrapped, file_key, m, grease) ==
    IF wrapped.outcome = "panic"
    THEN [outcome |-> "panic", file |-> NoFile]
    ELSE [outcome |-> "ok",
          file |-> WrapOutput(wrapped.stanzas
                                \o (IF grease THEN <<GreaseStanza>> ELSE <<>>),
                              file_key, m)]

tlock_age_encrypt(m, chain_hash, public_key_bytes, round, file_key, sigma, grease) ==
    Encryptor(wrap_file_key(Recipient(chain_hash, public_key_bytes, round),
                            file_key, sigma),
              file_key, m, grease)

\* what Identity::unwrap_stanza answers for each stanza of a header
Unwraps(identity, stanzas) ==
    SubSeq([i \in 1..Len(stanzas) |-> unwrap_stanza(identity, stanzas[i])],
           1, Len(stanzas))

\* the first of the answers that is not None, or 0 (find_map)
FirstSome(answers) ==
    LET some == {i \in 1..Len(answers) : answers[i].kind # "None"}
    IN  IF some = {} THEN 0 ELSE CHOOSE i \in some : \A j \in some : i <= j

Decrypted(outcome, err, dst) == [outcome |-> outcome, err |-> err, dst |-> dst]

\* tlock_age::decrypt: the age Decryptor with one tlock Identity
\* copy(&mut reader, &mut dst) on the payload opened
CopyOpened(opened) ==
    IF ~opened.ok THEN Decrypted("err", "DecryptionFailed", <<>>)
    ELSE Decrypted("ok", "", opened.m)

\* the age Decryptor once an identity answered res for a stanza
DecryptorWith(res, file) ==
    IF res.kind = "panic" THEN Decrypted("panic", "", <<>>)
    ELSE IF res.kind = "Err" THEN Decrypted("err", res.err, <<>>)
    ELSE IF HeaderMac(res.key, file.stanzas) # file.mac
    THEN Decrypted("err", "InvalidMac", <<>>)
    ELSE CopyOpened(Open(res.key, file.payload))

\* the age Decryptor on the answers of the identity, the first-th being the
\* first that is not None
DecryptorFirst(answers, first, file) ==
    IF first = 0 THEN Decrypted("err", "NoMatchingKeys", <<>>)
    ELSE DecryptorWith(answers[first], file)

Decryptor(answers, file) == DecryptorFirst(answers, FirstSome(answers), file)

tlock_age_decrypt(file, chain_hash, signature) ==
    Decryptor(Unwraps(Identity(chain_hash, signature), file.stanzas), file)

\* the header scan of the age Decryptor with a HeaderIdentity: unwrap_stanza
\* on each stanza from the i-th on, until one answers Some
RECURSIVE HeaderScan(_, _, _)
\* the scan after the identity answered for stanza i
HeaderScanned(answer, stanzas, i) ==
    IF answer.res.kind # "None" THEN answer.cells
    ELSE HeaderScan(answer.cells, stanzas, i + 1)

HeaderScan(cells, stanzas, i) ==
    IF i > Len(stanzas) THEN cells
    ELSE HeaderScanned(header_unwrap_stanza(cells, stanzas[i]), stanzas, i)

\* the match on (identity.round(), identity.hash()) of decrypt_header
MatchHeader(identity) ==
    IF identity.round # <<>> /\ identity.hash # <<>>
    THEN [outcome |-> "ok", round |-> identity.round[1],
          hash |-> identity.hash[1]]
    ELSE [outcome |-> "err", round |-> 0, hash |-> <<>>]

\* a variant of decrypt_header that returns the error of the age decryption
decrypt_header_propagating(file) ==
    [outcome |-> "err", round |-> 0, hash |-> <<>>]

\* tlock_age::decrypt_header
decrypt_header(file) ==
    MatchHeader(HeaderScan(NewHeaderIdentity, file.stanzas, 1))

\* ------------------------------------------------- the beacon (drand chain)
\* a chain has a secret key sk and its public key in G1 or in G2
Beacons == {[grp |-> g, sk |-> k] : g \in {"G1", "G2"}, k \in 2..(MaxSecret + 1)}

Rounds == 1..MaxRound

BeaconPublicKey(b) == to_compressed(Point(b.grp, b.sk % FieldOrder))

\* the signature on SHA256(round as 8 big-endian bytes), in the other group
BeaconSignature(b, round) ==
    to_compressed(mul(HashToCurve(Opposite(b.grp), RoundId(round)), b.sk))

\* ------------------------------------------------------ the age plugin
\* one pass of the inner loop of unwrap_file_keys: "skip" for continue,
\* "panic" for an unwrap that fails, or the result r of the stanza; the
\* signature is the one get_signature fetches from the beacon for the round
\* of the header, or the raw one of the identity
PluginStanza(info, b, stanza) ==
    IF stanza.tag # STANZA_TAG THEN Unwrapped("skip", "", <<>>)
    ELSE IF Len(stanza.args) # 2 THEN Unwrapped("skip", "", <<>>)
    ELSE IF ~ParseU64(stanza.args[1]).ok THEN Unwrapped("panic", "", <<>>)
    ELSE IF ~HexDecode(stanza.args[2]).ok THEN Unwrapped("panic", "", <<>>)
    ELSE IF info = <<>> THEN Unwrapped("panic", "", <<>>)
    ELSE unwrap_stanza(
             Identity(HexDecode(stanza.args[2]).bytes,
                      IF info[1].kind = "http"
                      THEN BeaconSignature(b, ParseU64(stanza.args[1]).value)
                      ELSE info[1].signature),
             stanza)

\* a variant of OrInsert that replaces the entry
OrInsert_replace(entry, r) == <<r>>

\* file_keys.entry(file).or_insert_with(|| r)
OrInsert(entry, r) == IF entry = <<>> THEN <<r>> ELSE entry

\* the entry of a file after the first n of its stanzas: <<>> is no entry
RECURSIVE PluginFile(_, _)
PluginFile(results, n) ==
    IF n = 0 THEN <<>>
    ELSE IF results[n].kind = "skip" THEN PluginFile(results, n - 1)
    ELSE OrInsert(PluginFile(results, n - 1), results[n])

\* unwrap_file_keys on the results of the stanzas of each file: a panic of a
\* stanza, or the unwrap of a None, aborts the call
PluginOutcome(results) ==
    IF \E f \in 1..Len(results) : \E i \in 1..Len(results[f]) :
          results[f][i].kind \in {"panic", "None"}
    THEN [outcome |-> "panic", file_keys |-> <<>>]
    ELSE [outcome |-> "ok",
          file_keys |-> [f \in 1..Len(results) |->
                           PluginFile(results[f], Len(results[f]))]]

\* IdentityPlugin::unwrap_file_keys: for each file, no entry or one result
unwrap_file_keys(info, b, files) ==
    PluginOutcome([f \in 1..Len(files) |->
                     [i \in 1..Len(files[f]) |->
                        PluginStanza(info, b, files[f][i])]])

\* ------------------------------------------------------------ the callers
\* a variant of Sigmas whose bytes are drawn from all of 0..255
Sigmas_bytes ==
    {[i \in 1..MSG_SIZE |-> (i * 37 * (k + 1) + k) % 256] : k \in 0..MaxSigmaSeed}

\* what the random generator of ibe::encrypt can draw
Sigmas ==
    {[i \in 1..MSG_SIZE |-> (i * k + k) % SIGMA_RANGE] : k \in 0..MaxSigmaSeed}

\* messages given to encrypt: empty, short, a full block, longer than a block,
\* with and without trailing zero bytes
Messages ==
    { <<>>,
      <<5, 0>>,
      Fill(8, MSG_SIZE),
      Zeros(MSG_SIZE),
      <<1, 2, 3>> \o Zeros(MSG_SIZE - 3),
      [i \in 1..(MSG_SIZE + 4) |-> i],
      [i \in 1..(MSG_SIZE + 4) |-> IF i <= MSG_SIZE THEN i ELSE 77],
      Fill(8, 2 * MSG_SIZE) }

\* public keys given to encrypt: the beacon's, one of 47 bytes, one that is
\* no point of its group
PublicKeyInputs(b) ==
    { BeaconPublicKey(b),
      Take(BeaconPublicKey(b), G1_SIZE - 1),
      Fill(255, Size(b.grp)) }

\* bit number bit of byte i flipped
FlipBit(bytes, i, bit) ==
    [bytes EXCEPT ![i] = XorByte(@, 2 ^ bit)]

\* the bit flips applied to a ciphertext U||V||W whose U has k bytes
Flips(ct, k) ==
    IF Len(ct) # k + 2 * MSG_SIZE THEN {}
    ELSE { FlipBit(ct, 1, 0), FlipBit(ct, k, 3), FlipBit(ct, k + MSG_SIZE, 7),
           FlipBit(ct, k + MSG_SIZE + 1, 4), FlipBit(ct, k + 2 * MSG_SIZE, 0) }

\* ciphertexts given to decrypt: what encrypt wrote, with a bit flipped, cut
\* short by one byte
CiphertextInputs(ct, k) ==
    {ct} \cup Flips(ct, k) \cup {SubSeq(ct, 1, Len(ct) - 1)}

\* signatures given to decrypt: those of the beacon, and one that is no
\* point of its group
SignatureInputs(b) ==
    {BeaconSignature(b, r) : r \in Rounds}
      \cup {Fill(255, Size(Opposite(b.grp)))}

\* chain hashes, file keys and payloads of the age-bound calls
ChainHashes == {<<219, 213, 6, 214>>, <<0, 171, 10, 15>>}

FileKeys ==
    { [i \in 1..MSG_SIZE |-> (i * 37 + 11) % 256],
      <<9, 8, 7>> \o Zeros(MSG_SIZE - 3),
      Zeros(MSG_SIZE) }

Payloads ==
    { <<>>,
      <<5, 0>>,
      [i \in 1..(MSG_SIZE + 4) |-> IF i > MSG_SIZE + 1 THEN 0 ELSE i] }

\* the upper-case form of a string of hex digits
ToUpper(str) ==
    [i \in 1..Len(str) |->
        IF \E d \in 1..16 : LowerHexChars[d] = str[i]
        THEN UpperHexChars[CHOOSE d \in 1..16 : LowerHexChars[d] = str[i]]
        ELSE str[i]]

\* a chain hash other than h
OtherHash(h) == CHOOSE x \in ChainHashes : x # h

\* a stanza of another tlock recipient: another round, another chain
OtherTlock(st) ==
    [st EXCEPT !.args = <<DecimalString(MaxRound + 5),
                          HexEncode(OtherHash(HexDecode(st.args[2]).bytes))>>]

\* stanzas given to an identity, made from the stanza st a recipient
\* returned: of another tag, with and without args; with one or three args;
\* with a round that is no u64; with a hash that is no hex; with another
\* hash; with the hash in upper case; with a signed round
StanzaInputs(st) ==
    { st,
      [st EXCEPT !.tag = "X25519"],
      Stanza("X25519", <<>>, <<1, 2, 3>>),
      [st EXCEPT !.args = <<st.args[1]>>],
      [st EXCEPT !.args = st.args \o <<<<"0">>>>],
      [st EXCEPT !.args[1] = <<"1", "x">>],
      [st EXCEPT !.args[1] = <<"-", "1">>],
      [st EXCEPT !.args[2] = <<"z", "z">>],
      [st EXCEPT !.args[2] = Tail(st.args[2])],
      [st EXCEPT !.args[2] = HexEncode(OtherHash(HexDecode(st.args[2]).bytes))],
      [st EXCEPT !.args[2] = ToUpper(st.args[2])],
      [st EXCEPT !.args[1] = <<"+">> \o st.args[1]] }

\* headers given to the age Decryptor, made from the stanza st
HeaderInputs(st) ==
    { <<>>,
      <<st>>,
      <<GreaseStanza, st>>,
      <<st, GreaseStanza>>,
      <<st, OtherTlock(st)>>,
      <<OtherTlock(st), GreaseStanza, st>>,
      <<st, [st EXCEPT !.args[2] = <<"z", "z">>]>>,
      <<[st EXCEPT !.args[1] = <<"1", "x">>], st>>,
      <<[st EXCEPT !.args = <<st.args[1]>>]>>,
      <<GreaseStanza>>,
      <<[st EXCEPT !.args[2] = <<"z", "z">>], GreaseStanza>>,
      <<GreaseStanza, st, [OtherTlock(st) EXCEPT !.args[2] = <<"z", "z">>]>> }

\* the stanzas of the files given to the plugin, made from the stanza st: a
\* file holds st alone, behind another stanza, in front of a tlock stanza
\* whose body is cut short or behind it, behind a tlock stanza with one arg,
\* in front of one whose hash is no hex; or no stanza at all
PluginFileInputs(st) ==
    { <<st>>,
      <<GreaseStanza, st>>,
      <<st, [st EXCEPT !.body = SubSeq(st.body, 1, Len(st.body) - 1)]>>,
      <<[st EXCEPT !.body = SubSeq(st.body, 1, Len(st.body) - 1)], st>>,
      <<[st EXCEPT !.args = <<st.args[1]>>], st, GreaseStanza>>,
      <<st, [st EXCEPT !.args[2] = <<"z", "z">>]>>,
      <<>> }

\* ------------------------------------------------------------------ state
VARIABLES
    beacon,   \* the chain the caller uses
    pc,       \* where the caller is
    enc,      \* the tlock::encrypt call made: its arguments and what it did
    dec,      \* the tlock::decrypt call made: its arguments and what it did
    ageEnc,   \* the tlock_age::encrypt call made
    ageDec,   \* the tlock_age::decrypt call made
    hdr,      \* the tlock_age::decrypt_header call made
    dec2,     \* a second tlock::decrypt call made by the same caller
    wrap,     \* the Recipient::wrap_file_key call made
    unwrap,   \* the Identity::unwrap_stanza call made
    hid,      \* a HeaderIdentity and the header scan made with it
    ibeEnc,   \* the ibe::encrypt call made
    ibeDec,   \* the ibe::decrypt call made
    unwrap2,  \* a second Identity::unwrap_stanza call, on another round
    plug      \* the IdentityPlugin::unwrap_file_keys call made

vars ==
    <<beacon, pc, enc, dec, ageEnc, ageDec, hdr, dec2, wrap, unwrap, hid,
      ibeEnc, ibeDec, unwrap2, plug>>

NoEnc ==
    [src |-> <<>>, pk |-> <<>>, round |-> 0, sigma |-> <<>>, wfail |-> 0,
     outcome |-> "none", dst |-> <<>>]

NoDec ==
    [src |-> <<>>, sig |-> <<>>, wfail |-> 0, outcome |-> "none",
     dst |-> <<>>, pt |-> <<>>, check |-> "none"]

NoAgeEnc ==
    [m |-> <<>>, chain_hash |-> <<>>, pk |-> <<>>, round |-> 0,
     file_key |-> <<>>, sigma |-> <<>>, grease |-> FALSE, outcome |-> "none",
     file |-> NoFile]

NoAgeDec ==
    [src |-> NoFile, chain_hash |-> <<>>, sig |-> <<>>, outcome |-> "none",
     err |-> "", dst |-> <<>>]

NoHdr == [src |-> NoFile, outcome |-> "none", round |-> 0, hash |-> <<>>]

NoWrap ==
    [hash |-> <<>>, pk |-> <<>>, round |-> 0, file_key |-> <<>>,
     sigma |-> <<>>, outcome |-> "none", stanzas |-> <<>>]

NoUnwrap ==
    [hash |-> <<>>, sig |-> <<>>, stanza |-> Stanza("", <<>>, <<>>),
     reached |-> "none", kind |-> "none", err |-> "", key |-> <<>>]

\* no ibe::encrypt call yet
NoIbeEnc ==
    [master |-> Point("G1", 0), id |-> <<>>, msg |-> <<>>, sigma |-> <<>>,
     outcome |-> "none", c |-> Ciphertext(Point("G1", 0), <<>>, <<>>),
     buf |-> <<>>]

\* no ibe::decrypt call yet
NoIbeDec ==
    [private |-> Point("G1", 0), c |-> Ciphertext(Point("G1", 0), <<>>, <<>>),
     outcome |-> "none",
     msg |-> <<>>, check |-> "none"]

\* no unwrap_file_keys call yet
NoPlug ==
    [info |-> <<>>, files |-> <<>>,
     res |-> [outcome |-> "none", file_keys |-> <<>>]]

\* no HeaderIdentity yet: no header, empty cells, no answer
NoHid ==
    [header |-> <<>>, cells |-> NewHeaderIdentity, answers |-> <<>>,
     age |-> "none"]

\* the record of a call: its arguments and what it returned and wrote
EncCall(src, pk, round, sigma, wfail, res) ==
    [src |-> src, pk |-> pk, round |-> round, sigma |-> sigma,
     wfail |-> wfail, outcome |-> res.outcome, dst |-> res.dst]

\* a variant of DecCall whose writer still holds the bytes of the first call
DecCall_appending(src, sig, wfail, res) ==
    [src |-> src, sig |-> sig, wfail |-> wfail, outcome |-> res.outcome,
     dst |-> dec.dst \o res.dst, pt |-> res.pt, check |-> res.check]

DecCall(src, sig, wfail, res) ==
    [src |-> src, sig |-> sig, wfail |-> wfail, outcome |-> res.outcome,
     dst |-> res.dst, pt |-> res.pt, check |-> res.check]

AgeEncCall(m, chain_hash, pk, round, file_key, sigma, grease, res) ==
    [m |-> m, chain_hash |-> chain_hash, pk |-> pk, round |-> round,
     file_key |-> file_key, sigma |-> sigma, grease |-> grease,
     outcome |-> res.outcome, file |-> res.file]

AgeDecCall(src, chain_hash, sig, res) ==
    [src |-> src, chain_hash |-> chain_hash, sig |-> sig,
     outcome |-> res.outcome, err |-> res.err, dst |-> res.dst]

HdrCall(src, res) ==
    [src |-> src, outcome |-> res.outcome, round |-> res.round,
     hash |-> res.hash]

WrapCall(recipient, file_key, sigma, res) ==
    [hash |-> recipient.hash, pk |-> recipient.public_key_bytes,
     round |-> recipient.round, file_key |-> file_key, sigma |-> sigma,
     outcome |-> res.outcome, stanzas |-> res.stanzas]

UnwrapCall(identity, stanza, reached, res) ==
    [hash |-> identity.hash, sig |-> identity.signature, stanza |-> stanza,
     reached |-> reached, kind |-> res.kind, err |-> res.err, key |-> res.key]

\* one more unwrap_stanza call on a HeaderIdentity during a scan
HidCall(scan, answer) ==
    [scan EXCEPT !.cells = answer.cells,
                 !.answers = Append(scan.answers, answer.res)]

Init ==
    /\ beacon \in Beacons
    /\ pc = "idle"
    /\ enc = NoEnc
    /\ dec = NoDec
    /\ ageEnc = NoAgeEnc
    /\ ageDec = NoAgeDec
    /\ hdr = NoHdr
    /\ dec2 = NoDec
    /\ wrap = NoWrap
    /\ unwrap = NoUnwrap
    /\ hid = NoHid
    /\ ibeEnc = NoIbeEnc
    /\ ibeDec = NoIbeDec
    /\ unwrap2 = NoUnwrap
    /\ plug = NoPlug

\* a call of tlock::encrypt(dst, src, public_key_bytes, round_number)
Encrypt ==
    /\ pc = "idle"
    /\ \E src \in Messages, pk \in PublicKeyInputs(beacon), round \in Rounds,
          sigma \in Sigmas, wfail \in 0..3 :
         enc' = EncCall(src, pk, round, sigma, wfail,
                        tlock_encrypt(src, pk, round, sigma, wfail))
    /\ pc' = IF enc'.outcome = "panic" THEN "aborted" ELSE "encrypted"
    /\ UNCHANGED <<beacon, dec, ageEnc, ageDec, hdr, dec2, wrap, unwrap, hid,
                   ibeEnc, ibeDec, unwrap2, plug>>

\* a call of tlock::decrypt(dst, src, signature) on what encrypt wrote
Decrypt ==
    /\ pc = "encrypted"
    /\ \E src \in CiphertextInputs(enc.dst, Len(enc.pk)),
          sig \in SignatureInputs(beacon), wfail \in 0..1 :
         dec' = DecCall(src, sig, wfail, tlock_decrypt(src, sig, wfail))
    /\ pc' = IF dec'.outcome = "panic" THEN "aborted" ELSE "decrypted"
    /\ UNCHANGED <<beacon, enc, ageEnc, ageDec, hdr, dec2, wrap, unwrap, hid,
                   ibeEnc, ibeDec, unwrap2, plug>>

\* a call of tlock_age::encrypt(dst, src, chain_hash, public_key_bytes, round)
AgeEncrypt ==
    /\ pc = "idle"
    /\ \E m \in Payloads, chain_hash \in ChainHashes,
          pk \in {BeaconPublicKey(beacon), Take(BeaconPublicKey(beacon), G1_SIZE - 1)},
          round \in Rounds, file_key \in FileKeys, sigma \in Sigmas,
          grease \in BOOLEAN :
         ageEnc' = AgeEncCall(m, chain_hash, pk, round, file_key, sigma, grease,
                              tlock_age_encrypt(m, chain_hash, pk, round,
                                                file_key, sigma, grease))
    /\ pc' = IF ageEnc'.outcome = "panic" THEN "aborted" ELSE "age_encrypted"
    /\ UNCHANGED <<beacon, enc, dec, ageDec, hdr, dec2, wrap, unwrap, hid,
                   ibeEnc, ibeDec, unwrap2, plug>>

\* a call of tlock_age::decrypt(dst, src, chain_hash, signature) on the file
\* tlock_age::encrypt wrote
AgeDecrypt ==
    /\ pc = "age_encrypted"
    /\ \E chain_hash \in ChainHashes,
          sig \in {BeaconSignature(beacon, r) : r \in Rounds} :
         ageDec' = AgeDecCall(ageEnc.file, chain_hash, sig,
                              tlock_age_decrypt(ageEnc.file, chain_hash, sig))
    /\ pc' = IF ageDec'.outcome = "panic" THEN "aborted" ELSE "age_decrypted"
    /\ UNCHANGED <<beacon, enc, dec, ageEnc, hdr, dec2, wrap, unwrap, hid,
                   ibeEnc, ibeDec, unwrap2, plug>>

\* a call of tlock_age::decrypt_header(src) on the file tlock_age::encrypt
\* wrote
DecryptHeader ==
    /\ pc = "age_encrypted"
    /\ hdr' = HdrCall(ageEnc.file, decrypt_header(ageEnc.file))
    /\ pc' = "header_read"
    /\ UNCHANGED <<beacon, enc, dec, ageEnc, ageDec, dec2, wrap, unwrap, hid,
                   ibeEnc, ibeDec, unwrap2, plug>>

\* the raw tlock calls
Next == Encrypt \/ Decrypt

Spec == Init /\ [][Next]_vars

\* the age-bound calls
NextAge == AgeEncrypt \/ AgeDecrypt \/ DecryptHeader

SpecAge == Init /\ [][NextAge]_vars

\* a second call of tlock::decrypt by the caller, with the arguments of the
\* first call or with others
DecryptAgain ==
    /\ pc = "decrypted"
    /\ \E src \in {dec.src, enc.dst},
          sig \in {dec.sig, BeaconSignature(beacon, enc.round)},
          wfail \in {dec.wfail, 0} :
         dec2' = DecCall(src, sig, wfail, tlock_decrypt(src, sig, wfail))
    /\ pc' = IF dec2'.outcome = "panic" THEN "aborted" ELSE "decrypted_again"
    /\ UNCHANGED <<beacon, enc, dec, ageEnc, ageDec, hdr, wrap, unwrap, hid,
                   ibeEnc, ibeDec, unwrap2, plug>>

\* the raw tlock calls, decrypt called twice
NextAgain == Encrypt \/ Decrypt \/ DecryptAgain

SpecAgain == Init /\ [][NextAgain]_vars

\* a call of Recipient::wrap_file_key by the age Encryptor
WrapFileKey ==
    /\ pc = "idle"
    /\ \E chain_hash \in ChainHashes,
          pk \in {BeaconPublicKey(beacon), Take(BeaconPublicKey(beacon), G1_SIZE - 1)},
          round \in Rounds, file_key \in FileKeys, sigma \in Sigmas :
         wrap' = WrapCall(Recipient(chain_hash, pk, round), file_key, sigma,
                          wrap_file_key(Recipient(chain_hash, pk, round),
                                        file_key, sigma))
    /\ pc' = IF wrap'.outcome = "panic" THEN "aborted" ELSE "wrapped"
    /\ UNCHANGED <<beacon, enc, dec, ageEnc, ageDec, hdr, dec2, unwrap, hid,
                   ibeEnc, ibeDec, unwrap2, plug>>

\* a call of Identity::unwrap_stanza by the age Decryptor
UnwrapStanza ==
    /\ pc = "wrapped"
    /\ \E stanza \in StanzaInputs(wrap.stanzas[1]), chain_hash \in ChainHashes,
          sig \in {BeaconSignature(beacon, r) : r \in Rounds} :
         unwrap' = UnwrapCall(Identity(chain_hash, sig), stanza,
                              unwrap_stanza_reached(Identity(chain_hash, sig), stanza),
                              unwrap_stanza(Identity(chain_hash, sig), stanza))
    /\ pc' = IF unwrap'.kind = "panic" THEN "aborted" ELSE "unwrapped"
    /\ UNCHANGED <<beacon, enc, dec, ageEnc, ageDec, hdr, dec2, wrap, hid,
                   ibeEnc, ibeDec, unwrap2, plug>>

\* decrypt_header creates a HeaderIdentity and hands it to the age Decryptor
\* of a file with some header
HeaderNew ==
    /\ pc = "wrapped"
    /\ \E header \in HeaderInputs(wrap.stanzas[1]) :
         hid' = [NoHid EXCEPT !.header = header]
    /\ pc' = "scanning"
    /\ UNCHANGED <<beacon, enc, dec, ageEnc, ageDec, hdr, dec2, wrap, unwrap,
                   ibeEnc, ibeDec, unwrap2, plug>>

\* the age Decryptor has one more stanza to show the identity: none shown
\* yet, or None answered for the last one shown
ScanContinues ==
    /\ Len(hid.answers) < Len(hid.header)
    /\ IF hid.answers = <<>> THEN TRUE
       ELSE hid.answers[Len(hid.answers)].kind = "None"

\* a call of HeaderIdentity::unwrap_stanza by the age Decryptor, on the next
\* stanza of the header
HeaderUnwrap ==
    /\ pc = "scanning"
    /\ ScanContinues
    /\ hid' = HidCall(hid, header_unwrap_stanza(hid.cells,
                                                hid.header[Len(hid.answers) + 1]))
    /\ UNCHANGED <<beacon, pc, enc, dec, ageEnc, ageDec, hdr, dec2, wrap, unwrap,
                   ibeEnc, ibeDec, unwrap2, plug>>

\* the file whose header is scanned
ScannedFile ==
    AgeFile(hid.header, HeaderMac(wrap.file_key, hid.header),
            Seal(wrap.file_key, <<>>))

\* the age Decryptor returns to decrypt_header, which discards what it
\* returns and matches on the cells
HeaderFinish ==
    /\ pc = "scanning"
    /\ ~ScanContinues
    /\ hid' = [hid EXCEPT !.age = Decryptor(hid.answers, ScannedFile).outcome]
    /\ hdr' = HdrCall(ScannedFile, decrypt_header(ScannedFile))
    /\ pc' = "header_read"
    /\ UNCHANGED <<beacon, enc, dec, ageEnc, ageDec, dec2, wrap, unwrap,
                   ibeEnc, ibeDec, unwrap2, plug>>

\* a second call of Identity::unwrap_stanza, on the tlock stanza of the first
\* call with another round argument that parses as a u64
UnwrapOtherRound ==
    /\ pc = "unwrapped"
    /\ unwrap.stanza.tag = STANZA_TAG
    /\ Len(unwrap.stanza.args) = 2
    /\ ParseU64(unwrap.stanza.args[1]).ok
    /\ \E round \in {<<"0">>, DecimalString(MaxRound + 1), <<"+", "7">>,
                     <<"0", "0", "1">>} :
         /\ round # unwrap.stanza.args[1]
         /\ unwrap2' =
              UnwrapCall(Identity(unwrap.hash, unwrap.sig),
                         [unwrap.stanza EXCEPT !.args[1] = round],
                         unwrap_stanza_reached(
                             Identity(unwrap.hash, unwrap.sig),
                             [unwrap.stanza EXCEPT !.args[1] = round]),
                         unwrap_stanza(
                             Identity(unwrap.hash, unwrap.sig),
                             [unwrap.stanza EXCEPT !.args[1] = round]))
    /\ pc' = IF unwrap2'.kind = "panic" THEN "aborted" ELSE "unwrapped_again"
    /\ UNCHANGED <<beacon, enc, dec, ageEnc, ageDec, hdr, dec2, wrap, unwrap,
                   hid, ibeEnc, ibeDec, plug>>

\* the calls the age library makes on the recipient and the identities
NextStanza ==
    \/ WrapFileKey
    \/ UnwrapStanza
    \/ UnwrapOtherRound
    \/ HeaderNew
    \/ HeaderUnwrap
    \/ HeaderFinish

SpecStanza == Init /\ [][NextStanza]_vars

\* signatures given to decrypt by a caller who holds signatures of several
\* chains: those of the beacon, one that lies in the group of the public key,
\* one of 47 bytes
AnySignatureInputs(b) ==
    SignatureInputs(b)
      \cup { to_compressed(Point(b.grp, 3 % FieldOrder)),
             Take(BeaconSignature(b, 1), G1_SIZE - 1) }

\* ciphertexts given to decrypt: those of CiphertextInputs, and what encrypt
\* wrote followed by more bytes
AnyCiphertextInputs(ct, k) ==
    CiphertextInputs(ct, k) \cup {ct \o Zeros(G2_SIZE)}

\* a call of tlock::decrypt(dst, src, signature) with a signature of any
\* group and any length
DecryptAny ==
    /\ pc = "encrypted"
    /\ \E src \in AnyCiphertextInputs(enc.dst, Len(enc.pk)),
          sig \in AnySignatureInputs(beacon), wfail \in 0..1 :
         dec' = DecCall(src, sig, wfail, tlock_decrypt(src, sig, wfail))
    /\ pc' = IF dec'.outcome = "panic" THEN "aborted" ELSE "decrypted"
    /\ UNCHANGED <<beacon, enc, ageEnc, ageDec, hdr, dec2, wrap, unwrap, hid,
                   ibeEnc, ibeDec, unwrap2, plug>>

\* the raw tlock calls, decrypt with any signature
NextAny == Encrypt \/ DecryptAny

SpecAny == Init /\ [][NextAny]_vars

\* messages given to ibe::encrypt: of 16 bytes, empty, short, longer than
\* 16 bytes, of a whole block, longer than a block
IbeMessages ==
    { Fill(8, MSG_SIZE),
      Zeros(MSG_SIZE),
      [i \in 1..MSG_SIZE |-> i],
      <<>>,
      <<1, 2, 3>>,
      Fill(8, MSG_SIZE + 1),
      Fill(8, BLOCK_SIZE),
      Fill(8, BLOCK_SIZE + 1) }

\* a call of ibe::encrypt(master, id, msg) with the public key of the beacon
\* and the id of a round; buf is the buffer expand_message fills in step 3
IbeEncrypt ==
    /\ pc = "idle"
    /\ \E master \in {try_from(BeaconPublicKey(beacon)).point},
          round \in Rounds, msg \in IbeMessages, sigma \in Sigmas :
         ibeEnc' =
            [master |-> master, id |-> RoundId(round), msg |-> msg,
             sigma |-> sigma,
             outcome |-> ibe_encrypt(master, RoundId(round), msg, sigma).outcome,
             c |-> ibe_encrypt(master, RoundId(round), msg, sigma).c,
             buf |-> IF Len(msg) > BLOCK_SIZE THEN <<>>
                     ELSE expand_message(Sha256(LabelH3 \o sigma \o msg))]
    /\ pc' = IF ibeEnc'.outcome = "panic" THEN "aborted" ELSE "ibe_encrypted"
    /\ UNCHANGED <<beacon, enc, dec, ageEnc, ageDec, hdr, dec2, wrap, unwrap,
                   hid, ibeDec, unwrap2, plug>>

\* private keys given to ibe::decrypt: the signatures of the beacon, and a
\* point in the group of the public key
IbePrivateInputs(b) ==
    {try_from(BeaconSignature(b, r)).point : r \in Rounds}
      \cup {Point(b.grp, 3 % FieldOrder)}

\* ciphertexts given to ibe::decrypt: what ibe::encrypt returned, the same
\* with V and W behind 16 zero bytes as tlock::decrypt builds it, with a bit
\* of V flipped, with another U
IbeCiphertextInputs(c) ==
    { c,
      Ciphertext(c.u, Zeros(MSG_SIZE) \o c.v, Zeros(MSG_SIZE) \o c.w),
      Ciphertext(c.u, FlipBit(c.v, 1, 0), c.w),
      Ciphertext(mul(c.u, 2), c.v, c.w) }

\* a call of ibe::decrypt(private, c)
IbeDecrypt ==
    /\ pc = "ibe_encrypted"
    /\ \E private \in IbePrivateInputs(beacon),
          c \in IbeCiphertextInputs(ibeEnc.c) :
         ibeDec' =
            [private |-> private, c |-> c,
             outcome |-> ibe_decrypt(private, c).outcome,
             msg |-> ibe_decrypt(private, c).msg,
             check |-> ibe_decrypt(private, c).check]
    /\ pc' = IF ibeDec'.outcome = "panic" THEN "aborted" ELSE "ibe_decrypted"
    /\ UNCHANGED <<beacon, enc, dec, ageEnc, ageDec, hdr, dec2, wrap, unwrap,
                   hid, ibeEnc, unwrap2, plug>>

\* the calls of the IBE primitive
NextIbe == IbeEncrypt \/ IbeDecrypt

SpecIbe == Init /\ [][NextIbe]_vars

\* a call of IdentityPlugin::unwrap_file_keys by the age client, with the
\* stanzas of one file or of two; the identity added before is one with the
\* URL of the beacon, one with the raw signature of the round, or none
UnwrapFileKeys ==
    /\ pc = "wrapped"
    /\ \E info \in {<<>>, <<[kind |-> "http", signature |-> <<>>]>>,
                    <<[kind |-> "raw",
                       signature |-> BeaconSignature(beacon, wrap.round)]>>},
          first \in PluginFileInputs(wrap.stanzas[1]),
          rest \in {<<>>, <<<<GreaseStanza>>>>} :
         plug' = [info |-> info, files |-> <<first>> \o rest,
                  res |-> unwrap_file_keys(info, beacon, <<first>> \o rest)]
    /\ pc' = IF plug'.res.outcome = "panic" THEN "aborted"
             ELSE "unwrapped_files"
    /\ UNCHANGED <<beacon, enc, dec, ageEnc, ageDec, hdr, dec2, wrap, unwrap,
                   hid, ibeEnc, ibeDec, unwrap2>>

\* the calls the age client makes on the recipient and on the plugin
NextPlugin == WrapFileKey \/ UnwrapFileKeys

SpecPlugin == Init /\ [][NextPlugin]_vars

\* ------------------------------------------------------------ the claims
\* the parts of a raw ciphertext whose U has k bytes
UPart(ct, k) == SubSeq(ct, 1, k)

VPart(ct, k) == SubSeq(ct, k + 1, k + MSG_SIZE)

WPart(ct, k) == SubSeq(ct, k + MSG_SIZE + 1, k + 2 * MSG_SIZE)

\* the first 16 bytes of src, followed by zero bytes up to 16
PaddedBlock(src) ==
    [i \in 1..MSG_SIZE |-> IF i <= Len(src) THEN src[i] ELSE 0]

\* encrypt was called with the beacon's public key
EncryptedToBeacon ==
    /\ enc.outcome # "none"
    /\ enc.pk = BeaconPublicKey(beacon)

\* decrypt was called, on a writer that does not fail, with what a successful
\* encrypt wrote and with the beacon's signature for the round of encrypt
MatchingDecrypt ==
    /\ EncryptedToBeacon
    /\ enc.outcome = "ok"
    /\ dec.outcome # "none"
    /\ dec.wfail = 0
    /\ dec.src = enc.dst
    /\ dec.sig = BeaconSignature(beacon, enc.round)

\* C1: for both key configurations, every round and every 16-byte message m,
\* decrypt of what encrypt(m, pk, r) wrote, with the beacon signature of round
\* r, succeeds, and its output zero-padded back to 16 bytes is m.
C1_RawRoundTrip ==
    (MatchingDecrypt /\ Len(enc.src) = MSG_SIZE)
        => /\ dec.outcome = "ok"
           /\ Len(dec.dst) <= MSG_SIZE
           /\ dec.dst \o Zeros(MSG_SIZE - Len(dec.dst)) = enc.src

C1_Witness ==
    /\ MatchingDecrypt
    /\ beacon.grp = "G2"
    /\ enc.src = <<1, 2, 3>> \o Zeros(MSG_SIZE - 3)
    /\ dec.outcome = "ok"
    /\ dec.dst = <<1, 2, 3>>

\* tlock_age::decrypt was called with the file a successful tlock_age::encrypt
\* wrote, the chain hash of that call and the beacon's signature for its round
AgeMatchingDecrypt ==
    /\ ageEnc.outcome = "ok"
    /\ ageEnc.pk = BeaconPublicKey(beacon)
    /\ ageDec.outcome # "none"
    /\ ageDec.src = ageEnc.file
    /\ ageDec.chain_hash = ageEnc.chain_hash
    /\ ageDec.sig = BeaconSignature(beacon, ageEnc.round)

\* C2: for every payload m (empty, shorter or longer than 16 bytes, ending in
\* zero bytes) and matching chain hash, public key, round and signature,
\* tlock_age::decrypt of what tlock_age::encrypt wrote writes exactly m.
C2_AgeRoundTrip ==
    AgeMatchingDecrypt => (ageDec.outcome = "ok" /\ ageDec.dst = ageEnc.m)

C2_Witness ==
    /\ AgeMatchingDecrypt
    /\ ageEnc.file_key = <<9, 8, 7>> \o Zeros(MSG_SIZE - 3)
    /\ Len(ageEnc.m) > MSG_SIZE
    /\ ageEnc.m[Len(ageEnc.m)] = 0
    /\ ageDec.outcome = "ok"
    /\ ageDec.dst = ageEnc.m

\* C4: when the consistency check U = G^r of decryption fails, tlock::decrypt
\* returns an error value to its caller and does not abort.
C4_CheckFailureIsError == (dec.check = "fail") => (dec.outcome = "err")

\* C5: tlock::encrypt with a public key of neither 48 nor 96 bytes returns an
\* error to its caller, without aborting, and writes no byte.
C5_BadKeySizeIsError ==
    (enc.outcome # "none" /\ Len(enc.pk) \notin {G1_SIZE, G2_SIZE})
        => (enc.outcome = "err" /\ enc.dst = <<>>)

\* C6: for every file tlock_age::encrypt wrote for (chain_hash, pk, round),
\* decrypt_header returns Ok with that round and that chain hash.
C6_HeaderExtraction ==
    (hdr.outcome # "none" /\ ageEnc.outcome = "ok" /\ hdr.src = ageEnc.file)
        => /\ hdr.outcome = "ok"
           /\ hdr.round = ageEnc.round
           /\ hdr.hash = ageEnc.chain_hash

C6_Witness ==
    /\ hdr.outcome = "ok"
    /\ hdr.src = ageEnc.file
    /\ ageEnc.grease
    /\ ageEnc.round = MaxRound
    /\ hdr.round = MaxRound
    /\ hdr.hash = <<219, 213, 6, 214>>

\* C7: for a 32-byte message, decrypt of what encrypt wrote, with the signature
\* of the round, writes exactly the 32 bytes of the message.
C7_RoundTrip32 ==
    (MatchingDecrypt /\ Len(enc.src) = 2 * MSG_SIZE)
        => (dec.outcome = "ok" /\ dec.dst = enc.src)

\* the block a ciphertext encrypts, recovered from its W with the sigma drawn
EncryptedBlock == xor(WPart(enc.dst, Len(enc.pk)), MaskH4(enc.sigma))

\* C8: encrypt consumes at most the first 16 bytes of src: the block it
\* encrypts is the first 16 bytes of src, zero-padded when src is shorter, and
\* the ciphertext is the one of the first 16 bytes of src alone.
C8_EncryptReads16 ==
    (EncryptedToBeacon /\ enc.wfail = 0)
        => /\ enc.outcome = "ok"
           /\ EncryptedBlock = PaddedBlock(enc.src)
           /\ enc.dst = tlock_encrypt(SubSeq(enc.src, 1, Min(Len(enc.src), MSG_SIZE)),
                                      enc.pk, enc.round, enc.sigma, 0).dst

C8_Witness ==
    /\ EncryptedToBeacon
    /\ enc.outcome = "ok"
    /\ enc.src = <<5, 0>>
    /\ EncryptedBlock = <<5>> \o Zeros(MSG_SIZE - 1)

C8_WitnessLong ==
    /\ EncryptedToBeacon
    /\ enc.outcome = "ok"
    /\ Len(enc.src) = MSG_SIZE + 4
    /\ enc.src[MSG_SIZE + 1] = 77
    /\ EncryptedBlock = [i \in 1..MSG_SIZE |-> i]

\* the longest prefix of pt that does not end in a zero byte
TrimmedOfZeros(pt) ==
    SubSeq(pt, 1, Cardinality({i \in 1..Len(pt) : \E j \in i..Len(pt) : pt[j] # 0}))

\* C9: decrypt writes the recovered plaintext with all of its trailing zero
\* bytes removed, the all-zero plaintext included: the output never ends with
\* a zero byte.
C9_TrailingZerosRemoved ==
    (dec.outcome = "ok")
        => /\ dec.dst = TrimmedOfZeros(dec.pt)
           /\ (dec.dst = <<>> \/ dec.dst[Len(dec.dst)] # 0)

\* the point U of a ciphertext and the Gt element the beacon's signature of the
\* round of encrypt pairs it to
UPoint == try_from(UPart(enc.dst, Len(enc.pk)))

PairedWithSignature ==
    pairing(try_from(BeaconSignature(beacon, enc.round)).point, UPoint.point).gt

\* C10: on success encrypt writes exactly K+32 bytes, K the length of the
\* public key: U (a compressed point of the group of the key, G^r), then V
\* (sigma masked), then W (the block masked); a failing write leaves the
\* writes before it, in that order.
C10_WireFormat ==
    EncryptedToBeacon
        => /\ enc.outcome = "ok" <=> enc.wfail = 0
           /\ Len(enc.dst) =
                 IF enc.wfail = 1 THEN 0
                 ELSE IF enc.wfail = 2 THEN Len(enc.pk)
                 ELSE IF enc.wfail = 3 THEN Len(enc.pk) + MSG_SIZE
                 ELSE Len(enc.pk) + 2 * MSG_SIZE
           /\ Len(enc.dst) >= Len(enc.pk)
                 => /\ UPoint.ok
                    /\ UPoint.point.grp = beacon.grp
                    /\ UPoint.point =
                          mul(generator(UPoint.point),
                              DeriveR(enc.sigma, PaddedBlock(enc.src)))
           /\ Len(enc.dst) >= Len(enc.pk) + MSG_SIZE
                 => VPart(enc.dst, Len(enc.pk))
                       = xor(enc.sigma, MaskH2(PairedWithSignature))
           /\ Len(enc.dst) = Len(enc.pk) + 2 * MSG_SIZE
                 => EncryptedBlock = PaddedBlock(enc.src)

C10_Witness ==
    /\ EncryptedToBeacon
    /\ enc.outcome = "ok"
    /\ beacon.grp = "G2"
    /\ Len(enc.dst) = G2_SIZE + 2 * MSG_SIZE
    /\ enc.src = Fill(8, MSG_SIZE)

C10_WitnessPartial ==
    /\ EncryptedToBeacon
    /\ enc.wfail = 3
    /\ Len(enc.dst) = Len(enc.pk) + MSG_SIZE

\* unwrap_stanza was called, with the chain hash of the recipient and the
\* beacon's signature for its round, on the stanza wrap_file_key returned
MatchingUnwrap ==
    /\ wrap.outcome = "ok"
    /\ wrap.pk = BeaconPublicKey(beacon)
    /\ unwrap.kind # "none"
    /\ unwrap.stanza = wrap.stanzas[1]
    /\ unwrap.hash = wrap.hash
    /\ unwrap.sig = BeaconSignature(beacon, wrap.round)

\* C11: for every 16-byte file key fk, those ending in zero bytes and the
\* all-zero one included, and matching chain hash, key, round and signature,
\* Identity::unwrap_stanza on the stanza of wrap_file_key(fk) is Some(Ok(fk)).
C11_FileKeyRoundTrip ==
    MatchingUnwrap => (unwrap.kind = "Ok" /\ unwrap.key = wrap.file_key)

C11_Witness ==
    /\ MatchingUnwrap
    /\ wrap.file_key = Zeros(MSG_SIZE)
    /\ unwrap.kind = "Ok"
    /\ unwrap.key = Zeros(MSG_SIZE)

C11_WitnessTrailing ==
    /\ MatchingUnwrap
    /\ wrap.file_key = <<9, 8, 7>> \o Zeros(MSG_SIZE - 3)
    /\ unwrap.key = wrap.file_key

\* a string is the decimal ASCII form of n: digits only, no leading zero
IsDecimalOf(str, n) ==
    /\ str # <<>>
    /\ \A i \in 1..Len(str) : \E d \in 0..9 : str[i] = DigitChars[d + 1]
    /\ Len(str) > 1 => str[1] # "0"
    /\ DecimalValue(str, Len(str)) = n

\* a string is the lower-case hex form of bytes: two digits a byte
IsLowerHexOf(str, bytes) ==
    /\ Len(str) = 2 * Len(bytes)
    /\ \A i \in 1..Len(bytes) :
          /\ str[2 * i - 1] = LowerHexChars[(bytes[i] \div 16) + 1]
          /\ str[2 * i] = LowerHexChars[(bytes[i] % 16) + 1]

\* C12: wrap_file_key returns exactly one stanza, with tag "tlock", exactly
\* two args (the round in decimal ASCII, then the chain hash in lower-case
\* hex), and as body the U||V||W bytes tlock::encrypt writes for the file key
\* under the recipient's public key and round.
C12_StanzaFormat ==
    (wrap.outcome # "none" /\ wrap.pk = BeaconPublicKey(beacon))
        => /\ wrap.outcome = "ok"
           /\ Len(wrap.stanzas) = 1
           /\ wrap.stanzas[1].tag = "tlock"
           /\ Len(wrap.stanzas[1].args) = 2
           /\ IsDecimalOf(wrap.stanzas[1].args[1], wrap.round)
           /\ IsLowerHexOf(wrap.stanzas[1].args[2], wrap.hash)
           /\ Len(wrap.stanzas[1].body) = Len(wrap.pk) + 2 * MSG_SIZE
           /\ wrap.stanzas[1].body
                 = tlock_encrypt(wrap.file_key, wrap.pk, wrap.round,
                                 wrap.sigma, 0).dst

C12_Witness ==
    /\ wrap.outcome = "ok"
    /\ wrap.round = MaxRound
    /\ wrap.hash = <<219, 213, 6, 214>>
    /\ wrap.stanzas[1].args[2] = <<"d", "b", "d", "5", "0", "6", "d", "6">>
    /\ Len(wrap.stanzas[1].body) = Len(wrap.pk) + 2 * MSG_SIZE

\* C13: Identity::unwrap_stanza returns None for every stanza whose tag is not
\* "tlock", whatever its args and body, and returns at the check of the tag:
\* no arg is parsed and no decryption is attempted.
C13_ForeignTagIsNone ==
    (unwrap.kind # "none" /\ unwrap.stanza.tag # "tlock")
        => (unwrap.kind = "None" /\ unwrap.reached = "tag")

C13_Witness ==
    /\ unwrap.kind = "None"
    /\ unwrap.stanza.tag = "X25519"
    /\ unwrap.stanza.args = <<>>

C13_WitnessBody ==
    /\ unwrap.kind = "None"
    /\ unwrap.stanza = [wrap.stanzas[1] EXCEPT !.tag = "X25519"]
    /\ unwrap.hash = wrap.hash
    /\ unwrap.sig = BeaconSignature(beacon, wrap.round)

\* unwrap_stanza was called on a tlock stanza with two args, the second the
\* hex form of bytes other than the chain hash of the identity
HashMismatch ==
    /\ unwrap.kind # "none"
    /\ unwrap.stanza.tag = "tlock"
    /\ Len(unwrap.stanza.args) = 2
    /\ HexDecode(unwrap.stanza.args[2]).ok
    /\ HexDecode(unwrap.stanza.args[2]).bytes # unwrap.hash

\* C14: Identity::unwrap_stanza returns Some(Err(InvalidHeader)) whenever the
\* hex-decoded second arg of a tlock stanza differs from the chain hash of the
\* identity, and does not attempt the decryption of the body, even a body
\* that decrypts under the signature of the identity.
C14_HashMismatchIsInvalidHeader ==
    HashMismatch
        => /\ unwrap.kind = "Err"
           /\ unwrap.err = "InvalidHeader"
           /\ unwrap.reached # "decrypt"

C14_Witness ==
    /\ HashMismatch
    /\ unwrap.stanza = wrap.stanzas[1]
    /\ unwrap.sig = BeaconSignature(beacon, wrap.round)
    /\ tlock_decrypt(unwrap.stanza.body, unwrap.sig, 0).outcome = "ok"
    /\ unwrap.kind = "Err"
    /\ unwrap.reached = "hash"

\* a tlock stanza with two args, a round that parses and a hash in hex
WellFormed(st) ==
    /\ st.tag = "tlock"
    /\ Len(st.args) = 2
    /\ ParseU64(st.args[1]).ok
    /\ HexDecode(st.args[2]).ok

\* C15: HeaderIdentity::unwrap_stanza never returns a file key: no answer is
\* Some(Ok(_)); for a well-formed tlock stanza it answers None and leaves the
\* parsed round and chain hash in its cells.
C15_HeaderIdentityNoKey ==
    /\ \A i \in 1..Len(hid.answers) :
          /\ hid.answers[i].kind # "Ok"
          /\ WellFormed(hid.header[i]) => hid.answers[i].kind = "None"
    /\ (hid.answers # <<>> /\ WellFormed(hid.header[Len(hid.answers)]))
          => /\ hid.cells.round
                  = <<ParseU64(hid.header[Len(hid.answers)].args[1]).value>>
             /\ hid.cells.hash
                  = <<HexDecode(hid.header[Len(hid.answers)].args[2]).bytes>>

C15_Witness ==
    /\ Len(hid.answers) = 2
    /\ hid.header[1] = GreaseStanza
    /\ WellFormed(hid.header[2])
    /\ hid.answers[2].kind = "None"
    /\ hid.cells.round = <<wrap.round>>
    /\ hid.cells.hash = <<wrap.hash>>

\* C16: decrypt_header returns Ok(Header{round, hash}) exactly when the scan
\* left both cells filled, with their contents, although the age decryption
\* it ran failed; it returns an error when nothing was captured.
C16_HeaderResult ==
    (hid.age # "none")
        => /\ hid.age = "err"
           /\ hdr.outcome = "ok"
                 <=> (hid.cells.round # <<>> /\ hid.cells.hash # <<>>)
           /\ hdr.outcome = "ok"
                 => /\ hdr.round = hid.cells.round[1]
                    /\ hdr.hash = hid.cells.hash[1]
           /\ hdr.outcome # "ok" => hdr.outcome = "err"

C16_Witness ==
    /\ hid.age = "err"
    /\ hdr.outcome = "ok"
    /\ hid.header = <<wrap.stanzas[1], GreaseStanza>>
    /\ hdr.round = wrap.round

C16_WitnessNothing ==
    /\ hid.age = "err"
    /\ hdr.outcome = "err"
    /\ hid.header = <<GreaseStanza>>
    /\ hid.cells = NewHeaderIdentity

C18_WriteFailureIsError ==
    (EncryptedToBeacon /\ enc.wfail \in 1..3) => enc.outcome = "err"

\* a tlock stanza the parsing rules reject: not two args, a round that is no
\* u64, or a hash that is no hex
Malformed(st) ==
    /\ st.tag = "tlock"
    /\ IF Len(st.args) # 2 THEN TRUE
       ELSE ~ParseU64(st.args[1]).ok \/ ~HexDecode(st.args[2]).ok

\* C19: for a tlock stanza the parsing rules reject, Identity and
\* HeaderIdentity both answer Some(Err(InvalidHeader)), and neither aborts.
C19_SameParsingRules ==
    /\ (unwrap.kind # "none" /\ Malformed(unwrap.stanza))
          => (unwrap.kind = "Err" /\ unwrap.err = "InvalidHeader")
    /\ \A i \in 1..Len(hid.answers) :
          Malformed(hid.header[i])
             => (hid.answers[i].kind = "Err"
                 /\ hid.answers[i].err = "InvalidHeader")

\* C20: during one header scan a cell of the HeaderIdentity that holds Some(x)
\* keeps Some(x) over every later unwrap_stanza call.
C20_CellsWrittenOnce ==
    [][/\ hid.cells.round # <<>> => hid'.cells.round = hid.cells.round
       /\ hid.cells.hash # <<>> => hid'.cells.hash = hid.cells.hash]_vars

\* decrypt read the whole ciphertext, parsed U and the signature, and so
\* called ibe::decrypt, which computes the pairing of the two
DecryptReachesPairing ==
    /\ dec.outcome # "none"
    /\ Len(dec.src) >= ULen(dec.sig) + 2 * MSG_SIZE
    /\ try_from(UPart(dec.src, ULen(dec.sig))).ok
    /\ try_from(dec.sig).ok

\* C21: in tlock decrypt the length of U is chosen from the length of the
\* signature (96 bytes for a signature of 48, 48 bytes for one of 96), so
\* the parsed U and the signature lie in opposite groups and the decryption
\* never fails with the Pairing error
C21_NoPairingError ==
    DecryptReachesPairing =>
        /\ ULen(dec.sig) + Len(dec.sig) = G1_SIZE + G2_SIZE
        /\ try_from(UPart(dec.src, ULen(dec.sig))).point.grp
             # try_from(dec.sig).point.grp
        /\ pairing(try_from(dec.sig).point,
                   try_from(UPart(dec.src, ULen(dec.sig))).point).ok
        /\ ~(dec.outcome = "err" /\ dec.check = "none")

\* decrypt reached the pairing with a signature that lies in the group of
\* the public key the ciphertext was made for
C21_Witness ==
    /\ DecryptReachesPairing
    /\ Len(dec.sig) = Len(enc.pk)

\* decrypt reached the pairing with a signature of the beacon
C21_WitnessBeacon ==
    /\ DecryptReachesPairing
    /\ dec.sig = BeaconSignature(beacon, enc.round)

\* the little-endian value of buf is below the order of the scalar field
Canonical(buf) ==
    /\ buf[1] < FieldOrder
    /\ \A i \in 2..Len(buf) : buf[i] = 0

\* C22: expand_message_drand accepts a counter only if the masked and
\* reversed digest is a canonical scalar, strictly below the field order, so
\* the 32-byte buffer it returns encodes a value below the field order and r
\* is never the modular reduction of a value out of range
C22_BufferIsCanonical ==
    ibeEnc.buf # <<>> =>
        /\ Len(ibeEnc.buf) = BLOCK_SIZE
        /\ Canonical(ibeEnc.buf)

\* the 48-byte chunks of s in the opposite order, the bytes inside each chunk
\* in their order
RevChunks(s) ==
    [i \in 1..Len(s) |->
        s[((Len(s) \div G1_SIZE) - 1 - ((i - 1) \div G1_SIZE)) * G1_SIZE
            + ((i - 1) % G1_SIZE) + 1]]

\* the first 16 bytes of the digest of the label IBE-H2 and the string x
H2Of(x) == Take(Sha256(LabelH2 \o x), MSG_SIZE)

\* the Gt element r Gid of the encrypt call made
EncryptGt ==
    (projective_pairing(ibeEnc.master, ibeEnc.id)
        * DeriveR(ibeEnc.sigma, ibeEnc.msg)) % FieldOrder

\* the serialized Gt element e(U, private) of the decrypt call made
DecryptGtBytes == GtSerialize(pairing(ibeDec.private, ibeDec.c.u).gt)

C24_LongMessageIsError ==
    (ibeEnc.outcome # "none" /\ Len(ibeEnc.msg) > MSG_SIZE) =>
        ibeEnc.outcome = "err"

\* C26: in every ibe::encrypt call sigma has 16 bytes, each in 0..7, and V is
\* that sigma xored with a mask of 16 bytes, so V and W have 16 bytes each
C26_SigmaAndSizes ==
    /\ ibeEnc.outcome # "none" =>
          /\ Len(ibeEnc.sigma) = MSG_SIZE
          /\ \A i \in 1..Len(ibeEnc.sigma) :
                ibeEnc.sigma[i] \in 0..(SIGMA_RANGE - 1)
    /\ ibeEnc.outcome = "ok" =>
          /\ Len(MaskH2(EncryptGt)) = MSG_SIZE
          /\ ibeEnc.c.v = xor(ibeEnc.sigma, MaskH2(EncryptGt))
          /\ Len(ibeEnc.c.v) = MSG_SIZE
          /\ Len(ibeEnc.c.w) = MSG_SIZE

\* encrypt returned a ciphertext made with a sigma that has a byte at the
\* upper end of the range
C26_Witness ==
    /\ ibeEnc.outcome = "ok"
    /\ \E i \in 1..Len(ibeEnc.sigma) : ibeEnc.sigma[i] = SIGMA_RANGE - 1

\* src is shorter than U, V and W together
ShortCiphertext == Len(dec.src) < ULen(dec.sig) + 2 * MSG_SIZE

\* the U read from src is no compressed point of its group
InvalidU ==
    IF ShortCiphertext THEN FALSE
    ELSE ~try_from(UPart(dec.src, ULen(dec.sig))).ok

\* C27: tlock decrypt writes to dst only after the whole ciphertext has been
\* read and the IBE decryption has succeeded; when it returns the error of a
\* src shorter than K+32 bytes or of a U that is no compressed point of its
\* group, no byte has been written to dst
C27_NoWriteOnError ==
    /\ (dec.outcome = "err" /\ (ShortCiphertext \/ InvalidU)) => dec.dst = <<>>
    /\ dec.dst # <<>> =>
          /\ ~ShortCiphertext
          /\ ~InvalidU
          /\ dec.check = "pass"

\* decrypt returned an error for a ciphertext cut short
C27_Witness ==
    /\ dec.outcome = "err"
    /\ ShortCiphertext

\* decrypt returned an error for a U that is no point
C27_WitnessPoint ==
    /\ dec.outcome = "err"
    /\ InvalidU

\* C25: the result of Identity::unwrap_stanza does not depend on the value of
\* the round argument: for two tlock stanzas that differ only in args[0],
\* both parsable as u64, it returns the same result
C25_RoundIndependent ==
    unwrap2.reached # "none" =>
        /\ unwrap2.reached = unwrap.reached
        /\ unwrap2.kind = unwrap.kind
        /\ unwrap2.err = unwrap.err
        /\ unwrap2.key = unwrap.key

\* both calls returned the file key, the second for a stanza that names
\* another round
C25_Witness ==
    /\ unwrap2.kind = "Ok"
    /\ unwrap.kind = "Ok"
    /\ unwrap2.stanza.args[2] = unwrap.stanza.args[2]
    /\ unwrap2.stanza.body = unwrap.stanza.body
    /\ ParseU64(unwrap2.stanza.args[1]).value
         # ParseU64(unwrap.stanza.args[1]).value

\* both cells hold what was parsed from the stanza st
CellsFrom(st) ==
    /\ WellFormed(st)
    /\ hid.cells.round = <<ParseU64(st.args[1]).value>>
    /\ hid.cells.hash = <<HexDecode(st.args[2]).bytes>>

\* C28: after any sequence of unwrap_stanza calls on one HeaderIdentity its
\* round and hash cells are both None or both Some, and when Some they were
\* parsed from the same stanza; decrypt_header never sees exactly one of the
\* two set
C28_CellsBothOrNone ==
    /\ (hid.cells.round = <<>>) <=> (hid.cells.hash = <<>>)
    /\ hid.cells.round # <<>> =>
          \E j \in 1..Len(hid.answers) : CellsFrom(hid.header[j])
    /\ hid.age # "none" =>
          /\ hdr.outcome = "ok" <=> hid.cells.round # <<>>
          /\ hdr.outcome = "err" <=> hid.cells.hash = <<>>

\* the cells hold a capture after a call that rejected a later stanza
C28_Witness ==
    /\ Len(hid.answers) = 3
    /\ hid.answers[3].kind = "Err"
    /\ hid.cells.round # <<>>
    /\ hid.cells.hash # <<>>

\* the cells are empty after a call that rejected a stanza with a round that
\* parses and a hash that is no hex
C28_WitnessNone ==
    /\ Len(hid.answers) = 1
    /\ hid.header[1].tag = "tlock"
    /\ Len(hid.header[1].args) = 2
    /\ ParseU64(hid.header[1].args[1]).ok
    /\ hid.cells.round = <<>>
    /\ hid.cells.hash = <<>>

\* C29: when HeaderIdentity::unwrap_stanza rejects or ignores a stanza (a tag
\* other than tlock, an argument count other than 2, a round that does not
\* parse, a hash that is no hex) both cells are left as they were; a stanza
\* with a valid round and an invalid hash does not update the round cell
C29_RejectedLeavesCells ==
    [][(/\ Len(hid'.answers) = Len(hid.answers) + 1
        /\ hid'.header = hid.header
        /\ ~WellFormed(hid.header[Len(hid.answers) + 1]))
          => hid'.cells = hid.cells]_vars

\* a stanza with a valid round and an invalid hash was rejected by a
\* HeaderIdentity whose cells held the capture of an earlier stanza
C29_Witness ==
    /\ Len(hid.answers) >= 2
    /\ hid.answers[Len(hid.answers)].kind = "Err"
    /\ hid.header[Len(hid.answers)].tag = "tlock"
    /\ Len(hid.header[Len(hid.answers)].args) = 2
    /\ ParseU64(hid.header[Len(hid.answers)].args[1]).ok
    /\ ~HexDecode(hid.header[Len(hid.answers)].args[2]).ok
    /\ hid.cells.round # <<>>
    /\ hid.cells.round
         # <<ParseU64(hid.header[Len(hid.answers)].args[1]).value>>

\* the stanzas of file f that have the tag tlock and two args
TlockStanzas(f) ==
    {i \in 1..Len(plug.files[f]) :
        /\ plug.files[f][i].tag = "tlock"
        /\ Len(plug.files[f][i].args) = 2}

\* the first of them
FirstTlock(f) == CHOOSE i \in TlockStanzas(f) : \A j \in TlockStanzas(f) : i <= j

\* C30: unwrap_file_keys records for each file index the result of the first
\* stanza of that file that has the tag tlock and two args: the results of
\* later stanzas never replace it, stanzas of another tag are skipped, and a
\* file without such a stanza has no entry in the map returned
C30_FirstStanzaWins ==
    plug.res.outcome = "ok" =>
        /\ Len(plug.res.file_keys) = Len(plug.files)
        /\ \A f \in 1..Len(plug.files) :
              IF TlockStanzas(f) = {} THEN plug.res.file_keys[f] = <<>>
              ELSE plug.res.file_keys[f]
                     = <<PluginStanza(plug.info, beacon,
                                      plug.files[f][FirstTlock(f)])>>

\* the map returned holds the key of the first tlock stanza of a file whose
\* second tlock stanza gave an error, and no entry for a file without one
C30_Witness ==
    /\ plug.res.outcome = "ok"
    /\ Len(plug.files) = 2
    /\ TlockStanzas(1) = {1, 2}
    /\ plug.res.file_keys[1] # <<>>
    /\ plug.res.file_keys[1][1].kind = "Ok"
    /\ plug.res.file_keys[1][1].key = wrap.file_key
    /\ PluginStanza(plug.info, beacon, plug.files[1][2]).kind = "Err"
    /\ TlockStanzas(2) = {}
    /\ plug.res.file_keys[2] = <<>>

\* the map returned holds the error of the first tlock stanza of a file whose
\* second tlock stanza gave the key
C30_WitnessError ==
    /\ plug.res.outcome = "ok"
    /\ TlockStanzas(1) = {1, 2}
    /\ plug.res.file_keys[1] # <<>>
    /\ plug.res.file_keys[1][1].kind = "Err"
    /\ PluginStanza(plug.info, beacon, plug.files[1][2]).kind = "Ok"

====
